---- MODULE Spec2Model ----
(***************************************************************************)
(* A model of thanos-limits-controller (src/main.go): one controller       *)
(* process that lists the matching StatefulSets, reads the operator's      *)
(* limits ConfigMap, injects write.default.head_series_limit and publishes *)
(* the result with a create-or-update against the cluster object store.    *)
(***************************************************************************)
EXTENDS Integers, Sequences, FiniteSets, TLC

VARIABLES cmdConfig,       \* the parsed flags (CmdConfig)
          pc,              \* where main is: validate, list, getSource, create,
                           \* getExisting, update, tick, exited
          exitCode,        \* -1 while running, 0 normal return, 1 log.Fatal
          cycle,           \* number of execute() calls started
          statefulSets,    \* the workload groups the label selector matches
          store,           \* ConfigMaps of the namespace, by name
          revision,        \* the store's revision counter (resourceVersion source)
          envWrites,       \* writes to the store made by others so far
          storeFaults,     \* the answers the store can give to a call in this run
          peer,            \* a second instance of the controller: its flags, where
                           \* its main is, and its execute's locals and calls
          runningReplicas, \* execute's runningReplicas
          globalLimit,     \* execute's globalLimit
          limitsConfig,    \* execute's limitsConfig (<<>> is nil)
          newConfigMap,    \* createGeneratedConfigMap's newConfigMap (<<>> before it is built)
          calls,           \* store calls issued in the current cycle, in order
          publishErr       \* what createGeneratedConfigMap returned this cycle

vars == <<cmdConfig, pc, exitCode, cycle, statefulSets, store, revision, envWrites,
          storeFaults, peer, runningReplicas, globalLimit, limitsConfig, newConfigMap, calls, publishErr>>

-----------------------------------------------------------------------------
(* Bounds of the model. *)

\* cycles run in interval mode before the model stops following the ticker
MaxCycles == 2
\* writes (create, update, delete) other clients make to the generated artifact
MaxEnvWrites == 1
\* workload groups matched by the selector
MaxGroups == 3
\* largest desired replica count of a workload group
MaxReplicas == 5
\* largest value of an optional integer field in a source document
MaxLimit == 1

MaxInt32 == 2147483647

-----------------------------------------------------------------------------
(* Errors are messages: sequences of words, so that strings.Contains is a    *)
(* search and not a tag test.  The empty message is the nil error.           *)

NoErr == <<>>

ErrAlreadyExists(name) == <<"configmaps", name, "already", "exists">>
ErrNotFound(name) == <<"configmaps", name, "not", "found">>
ErrConflict(name) == <<"operation", "cannot", "be", "fulfilled", "on", "configmaps", name,
                       "the", "object", "has", "been", "modified">>
ErrUnreachable == <<"dial", "tcp", "connection", "refused">>
ErrForbidden == <<"configmaps", "is", "forbidden">>
\* a refusal whose text happens to hold the words the publisher searches for
ErrDenied == <<"admission", "webhook", "denied", "the", "request", "name", "already",
               "exists", "in", "another", "namespace">>

\* strings.Contains(s, sub) on word sequences
Contains(s, sub) ==
    \E i \in 0..(Len(s) - Len(sub)) : SubSeq(s, i + 1, i + Len(sub)) = sub

-----------------------------------------------------------------------------
(* Go's int. The program is built for 64-bit targets (Makefile, Dockerfile), *)
(* where int has 64 bits and its arithmetic wraps. An int is kept as its     *)
(* eight two's-complement bytes, least significant first, so that every      *)
(* value of the flag and the wrap of a product are computed byte by byte.    *)

ByteBase == 256
IntBytes == 8

\* the int of a number that fits in 32 bits
Int64(n) ==
    LET ext == IF n < 0 THEN ByteBase - 1 ELSE 0
    IN  <<n % ByteBase, (n \div ByteBase) % ByteBase,
          (n \div (ByteBase * ByteBase)) % ByteBase,
          (n \div (ByteBase * ByteBase * ByteBase)) % ByteBase, ext, ext, ext, ext>>

\* math.MaxInt64
MaxInt64 == <<255, 255, 255, 255, 255, 255, 255, 127>>

IsNegative(b) == b[Len(b)] >= ByteBase \div 2

\* the same number in n bytes, n >= Len(b)
RECURSIVE SignExtend(_, _)
SignExtend(b, n) ==
    IF Len(b) >= n THEN b
    ELSE SignExtend(Append(b, IF IsNegative(b) THEN ByteBase - 1 ELSE 0), n)

\* sum of a[i] * b[k + 1 - i] for i in from..k
RECURSIVE ColumnSum(_, _, _, _)
ColumnSum(a, b, k, from) ==
    IF from > k THEN 0 ELSE a[from] * b[k + 1 - from] + ColumnSum(a, b, k, from + 1)

\* bytes k..n of the product of a and b, modulo ByteBase^n
RECURSIVE MulFrom(_, _, _, _, _)
MulFrom(a, b, n, k, carry) ==
    IF k > n THEN <<>>
    ELSE LET t == ColumnSum(a, b, k, 1) + carry
         IN  <<t % ByteBase>> \o MulFrom(a, b, n, k + 1, t \div ByteBase)

\* a * b as Go computes it on ints: the low 64 bits of the product
MulInt(a, b) == MulFrom(a, b, IntBytes, 1, 0)

\* a * b as a number: 128 bits hold the product of any two ints
ProductOf(a, b) ==
    MulFrom(SignExtend(a, 2 * IntBytes), SignExtend(b, 2 * IntBytes), 2 * IntBytes, 1, 0)

\* bytes k..1 of a divided by ten, with the remainder: [q, r]
RECURSIVE DivTenFrom(_, _, _)
DivTenFrom(a, k, rem) ==
    IF k = 0 THEN [q |-> <<>>, r |-> rem]
    ELSE LET t == rem * ByteBase + a[k]
             rest == DivTenFrom(a, k - 1, t % 10)
         IN  [q |-> Append(rest.q, t \div 10), r |-> rest.r]

\* the decimal digits of an unsigned magnitude, "" for zero
RECURSIVE DigitsOf(_)
DigitsOf(m) ==
    IF m = Int64(0) THEN ""
    ELSE LET d == DivTenFrom(m, IntBytes, 0) IN DigitsOf(d.q) \o ToString(d.r)

\* strconv.Itoa / %d of an int
FormatInt(b) ==
    IF b = Int64(0) THEN "0"
    ELSE IF IsNegative(b) THEN "-" \o DigitsOf(MulInt(b, Int64(-1)))
    ELSE DigitsOf(b)

-----------------------------------------------------------------------------
(* YAML text, as the tree the parser builds from it.                         *)

YInt(i) == [kind |-> "int", i |-> i]
YStr(s) == [kind |-> "str", s |-> s]
YNull == [kind |-> "null"]
YMap(m) == [kind |-> "map", m |-> m]
\* text that is not YAML at all
YBad == [kind |-> "bad"]

\* the empty mapping {}
EmptyMap == [k \in {} |-> YNull]

Has(node, k) == node.kind = "map" /\ k \in DOMAIN node.m

-----------------------------------------------------------------------------
(* The limits document (WriteConfig and the structs under it).  A Go pointer *)
(* is a sequence: <<>> is nil and <<v>> points to v.  The tenants map is a   *)
(* function; the nil map and the empty map are both the empty function.      *)

NilPtr == <<>>
Ptr(v) == <<v>>

ZeroRequestConfig == [SizeBytesLimit |-> NilPtr, SeriesLimit |-> NilPtr, SamplesLimit |-> NilPtr]
ZeroTenantConfig == [Request |-> NilPtr, HeadSeriesLimit |-> NilPtr]
ZeroGlobalConfig == [MaxConcurrency |-> NilPtr, MetaMonitoringURL |-> "",
                     MetaMonitoringLimitQuery |-> ""]
NoTenants == [k \in {} |-> NilPtr]
ZeroLimitsConfig == [Global |-> ZeroGlobalConfig, Default |-> ZeroTenantConfig,
                     Tenant |-> NoTenants]
ZeroWriteConfig == [Write |-> ZeroLimitsConfig]

(* yaml.Unmarshal: a key that is absent and a key whose value is null both   *)
(* leave the field at its zero value; keys the struct does not know are      *)
(* ignored; a scalar of the wrong type or a scalar where a mapping is        *)
(* expected is a type error, reported after the whole document is decoded.   *)

FieldNode(node, k) == IF k \in DOMAIN node.m THEN node.m[k] ELSE YNull

IntPtrOk(v) == v.kind \in {"int", "null"}
\* a decoder that fills an absent field with a pointer to zero
IntPtrOf_AbsentIsZero(v) == IF v.kind = "int" THEN Ptr(v.i) ELSE Ptr(Int64(0))
IntPtrOf(v) == IF v.kind = "int" THEN Ptr(v.i) ELSE NilPtr

StringOk(v) == v.kind \in {"str", "int", "null"}
StringOf(v) == IF v.kind = "str" THEN v.s
               ELSE IF v.kind = "int" THEN FormatInt(v.i)
               ELSE ""

RequestConfigOk(v) ==
    \/ v.kind = "null"
    \/ /\ v.kind = "map"
       /\ \A k \in {"size_bytes_limit", "series_limit", "samples_limit"} :
              IntPtrOk(FieldNode(v, k))
RequestConfigOf(v) ==
    IF v.kind = "map"
    THEN [SizeBytesLimit |-> IntPtrOf(FieldNode(v, "size_bytes_limit")),
          SeriesLimit |-> IntPtrOf(FieldNode(v, "series_limit")),
          SamplesLimit |-> IntPtrOf(FieldNode(v, "samples_limit"))]
    ELSE ZeroRequestConfig
RequestPtrOf(v) == IF v.kind = "map" THEN Ptr(RequestConfigOf(v)) ELSE NilPtr

TenantConfigOk(v) ==
    \/ v.kind = "null"
    \/ /\ v.kind = "map"
       /\ RequestConfigOk(FieldNode(v, "request"))
       /\ IntPtrOk(FieldNode(v, "head_series_limit"))
TenantConfigOf(v) ==
    IF v.kind = "map"
    THEN [Request |-> RequestPtrOf(FieldNode(v, "request")),
          HeadSeriesLimit |-> IntPtrOf(FieldNode(v, "head_series_limit"))]
    ELSE ZeroTenantConfig
TenantPtrOf(v) == IF v.kind = "map" THEN Ptr(TenantConfigOf(v)) ELSE NilPtr

TenantMapOk(v) ==
    \/ v.kind = "null"
    \/ /\ v.kind = "map"
       /\ \A k \in DOMAIN v.m : TenantConfigOk(v.m[k])
TenantMapOf(v) ==
    IF v.kind = "map" THEN [k \in DOMAIN v.m |-> TenantPtrOf(v.m[k])] ELSE NoTenants

GlobalConfigOk(v) ==
    \/ v.kind = "null"
    \/ /\ v.kind = "map"
       /\ IntPtrOk(FieldNode(v, "max_concurrency"))
       /\ StringOk(FieldNode(v, "meta_monitoring_url"))
       /\ StringOk(FieldNode(v, "meta_monitoring_limit_query"))
GlobalConfigOf(v) ==
    IF v.kind = "map"
    THEN [MaxConcurrency |-> IntPtrOf(FieldNode(v, "max_concurrency")),
          MetaMonitoringURL |-> StringOf(FieldNode(v, "meta_monitoring_url")),
          MetaMonitoringLimitQuery |-> StringOf(FieldNode(v, "meta_monitoring_limit_query"))]
    ELSE ZeroGlobalConfig

LimitsConfigOk(v) ==
    \/ v.kind = "null"
    \/ /\ v.kind = "map"
       /\ GlobalConfigOk(FieldNode(v, "global"))
       /\ TenantConfigOk(FieldNode(v, "default"))
       /\ TenantMapOk(FieldNode(v, "tenants"))
LimitsConfigOf(v) ==
    IF v.kind = "map"
    THEN [Global |-> GlobalConfigOf(FieldNode(v, "global")),
          Default |-> TenantConfigOf(FieldNode(v, "default")),
          Tenant |-> TenantMapOf(FieldNode(v, "tenants"))]
    ELSE ZeroLimitsConfig

WriteConfigOk(v) ==
    \/ v.kind = "null"
    \/ /\ v.kind = "map"
       /\ LimitsConfigOk(FieldNode(v, "write"))
WriteConfigOf(v) ==
    IF v.kind = "map" THEN [Write |-> LimitsConfigOf(FieldNode(v, "write"))]
    ELSE ZeroWriteConfig

ErrUnmarshal == <<"yaml", "unmarshal", "errors">>

\* yaml.Unmarshal([]byte(limitsConfig), &parsedConfig)
Unmarshal(text) ==
    IF WriteConfigOk(text) THEN [err |-> NoErr, config |-> WriteConfigOf(text)]
    ELSE [err |-> ErrUnmarshal, config |-> ZeroWriteConfig]

(* yaml.Marshal: a field tagged omitempty is left out when it is a nil       *)
(* pointer or an empty map; a pointer to 0 is not nil and is written; the    *)
(* strings and the global and default structs are always written.           *)

\* omitempty as it acts on an int instead of a *int: a zero is left out
MarshalRequestConfig_ZeroOmitted(r) ==
    LET f == [size_bytes_limit |-> r.SizeBytesLimit, series_limit |-> r.SeriesLimit,
              samples_limit |-> r.SamplesLimit]
    IN  YMap([k \in {x \in DOMAIN f : f[x] # NilPtr /\ f[x] # Ptr(Int64(0))} |-> YInt(f[k][1])])

MarshalRequestConfig(r) ==
    LET f == [size_bytes_limit |-> r.SizeBytesLimit, series_limit |-> r.SeriesLimit,
              samples_limit |-> r.SamplesLimit]
    IN  YMap([k \in {x \in DOMAIN f : f[x] # NilPtr} |-> YInt(f[k][1])])

MarshalTenantConfig(t) ==
    LET keys == (IF t.Request # NilPtr THEN {"request"} ELSE {})
                \cup (IF t.HeadSeriesLimit # NilPtr THEN {"head_series_limit"} ELSE {})
    IN  YMap([k \in keys |-> IF k = "request" THEN MarshalRequestConfig(t.Request[1])
                             ELSE YInt(t.HeadSeriesLimit[1])])

MarshalGlobalConfig(g) ==
    LET keys == {"meta_monitoring_url", "meta_monitoring_limit_query"}
                \cup (IF g.MaxConcurrency # NilPtr THEN {"max_concurrency"} ELSE {})
    IN  YMap([k \in keys |->
                 IF k = "max_concurrency" THEN YInt(g.MaxConcurrency[1])
                 ELSE IF k = "meta_monitoring_url" THEN YStr(g.MetaMonitoringURL)
                 ELSE YStr(g.MetaMonitoringLimitQuery)])

MarshalTenantMap(m) ==
    YMap([k \in DOMAIN m |-> IF m[k] = NilPtr THEN YNull ELSE MarshalTenantConfig(m[k][1])])

MarshalLimitsConfig(l) ==
    LET keys == {"global", "default"}
                \cup (IF DOMAIN l.Tenant # {} THEN {"tenants"} ELSE {})
    IN  YMap([k \in keys |->
                 IF k = "global" THEN MarshalGlobalConfig(l.Global)
                 ELSE IF k = "default" THEN MarshalTenantConfig(l.Default)
                 ELSE MarshalTenantMap(l.Tenant)])

\* yaml.Marshal(config)
Marshal(config) == YMap([k \in {"write"} |-> MarshalLimitsConfig(config.Write)])

-----------------------------------------------------------------------------
(* Flags. *)

SourceName == "thanos-limits"
GeneratedName == "thanos-limits-generated"
LimitsPath == "config.yaml"
DefaultLabel == "controller.limits.thanos.io=thanos-limits-controller"

\* the command lines the model starts from: each required flag given or left
\* at its default, the generated name distinct from the source name or equal
\* to it, the capacity of either sign, run-once or periodic (Interval counted
\* in ticks)
CmdConfigs ==
    [ConfigMapName : {"", SourceName},
     ConfigMapLimitsPath : {LimitsPath},
     ConfigMapGeneratedName : {"", GeneratedName, SourceName},
     ReceiverLabel : {DefaultLabel},
     ActiveSeriesMax : {Int64(-1000), Int64(0), Int64(1), Int64(1000), MaxInt64},
     Interval : {0, 1}]

\* validate without its check of the generated name
validate_GeneratedNameUnchecked(c) ==
    IF c.ConfigMapName = "" THEN <<"missing", "required", "flag", "-configmap-name">>
    ELSE IF c.ActiveSeriesMax = Int64(0) THEN <<"missing", "or", "invalid", "flag", "-active-series-max">>
    ELSE NoErr

\* CmdConfig.validate: the message of the error, NoErr for nil
validate(c) ==
    IF c.ConfigMapName = "" THEN <<"missing", "required", "flag", "-configmap-name">>
    ELSE IF c.ActiveSeriesMax = Int64(0) THEN <<"missing", "or", "invalid", "flag", "-active-series-max">>
    ELSE IF c.ConfigMapGeneratedName = ""
         THEN <<"missing", "required", "flag", "-configmap-generated-name">>
    ELSE NoErr

-----------------------------------------------------------------------------
(* The Cluster State Reader. *)

\* int32 addition, wrapping as Go's does
Add32(a, b) ==
    IF b > 0 /\ a > MaxInt32 - b THEN ((a - MaxInt32) + b) - MaxInt32 - 2
    ELSE IF b < 0 /\ a < (-MaxInt32 - 1) - b THEN ((a + MaxInt32) + b) + MaxInt32 + 2
    ELSE a + b

\* the loop as its comment describes it: only groups whose ready count equals
\* the desired count are added
AddReadyReplicas_OnlyFullyReady(acc, sts) ==
    IF sts.ReadyReplicas = sts.Replicas THEN Add32(acc, sts.ReadyReplicas) ELSE acc

\* one iteration of the loop over statefulSets.Items
AddReadyReplicas(acc, sts) == Add32(acc, sts.ReadyReplicas)

RECURSIVE SumReadyFrom(_, _, _)
SumReadyFrom(items, i, acc) ==
    IF i > Len(items) THEN acc
    ELSE SumReadyFrom(items, i + 1, AddReadyReplicas(acc, items[i]))

\* getRunningStatefulSets, once the list query has answered
getRunningStatefulSets(items) == SumReadyFrom(items, 1, 0)

\* globalLimit := runningReplicas * cmdConfig.ActiveSeriesMax, in Go ints: the
\* reader's int32 count converted to int, and a product that wraps
GlobalLimitOf(replicas, activeSeriesMax) == MulInt(Int64(replicas), activeSeriesMax)

StatefulSet(d, r) == [Replicas |-> d, ReadyReplicas |-> r]

\* workload groups: none, all but one, or all of the desired replicas ready
Groups == {StatefulSet(d, r) : d \in 3..MaxReplicas, r \in {0}} \cup
          {StatefulSet(d, d - 1) : d \in 3..MaxReplicas} \cup
          {StatefulSet(d, d) : d \in 3..MaxReplicas}

AllClusters == UNION {[1..n -> Groups] : n \in 0..MaxGroups}

ExampleCluster == <<StatefulSet(5, 5), StatefulSet(3, 2), StatefulSet(4, 0)>>

SmallClusters == {<<>>, <<StatefulSet(3, 3)>>, ExampleCluster}

-----------------------------------------------------------------------------
(* The cluster object store: ConfigMaps by name, each with its data and its  *)
(* resourceVersion.  A call can fail before it reaches the object (fault).   *)

ArtifactNames == {SourceName, GeneratedName}

NoData == [k \in {} |-> YNull]
Absent == [exists |-> FALSE, Data |-> NoData, ResourceVersion |-> 0]
Artifact(data, rv) == [exists |-> TRUE, Data |-> data, ResourceVersion |-> rv]

Faults == {NoErr, ErrUnreachable, ErrForbidden, ErrDenied}

ApiCreate(st, rev, obj, fault) ==
    IF fault # NoErr THEN [err |-> fault, store |-> st, revision |-> rev]
    ELSE IF st[obj.Name].exists
         THEN [err |-> ErrAlreadyExists(obj.Name), store |-> st, revision |-> rev]
    ELSE [err |-> NoErr,
          store |-> [st EXCEPT ![obj.Name] = Artifact(obj.Data, rev + 1)],
          revision |-> rev + 1]

ApiGet(st, name, fault) ==
    IF fault # NoErr THEN [err |-> fault, obj |-> Absent]
    ELSE IF ~st[name].exists THEN [err |-> ErrNotFound(name), obj |-> Absent]
    ELSE [err |-> NoErr, obj |-> st[name]]

\* an update that carries a resourceVersion succeeds only on that version
ApiUpdate(st, rev, obj, fault) ==
    IF fault # NoErr THEN [err |-> fault, store |-> st, revision |-> rev]
    ELSE IF ~st[obj.Name].exists
         THEN [err |-> ErrNotFound(obj.Name), store |-> st, revision |-> rev]
    ELSE IF obj.ResourceVersion # 0 /\ obj.ResourceVersion # st[obj.Name].ResourceVersion
         THEN [err |-> ErrConflict(obj.Name), store |-> st, revision |-> rev]
    ELSE [err |-> NoErr,
          store |-> [st EXCEPT ![obj.Name] = Artifact(obj.Data, rev + 1)],
          revision |-> rev + 1]

\* a store call as the cycle's history keeps it
Call(op, name, version, data, err, got) ==
    [op |-> op, name |-> name, version |-> version, data |-> data, err |-> err, got |-> got]

-----------------------------------------------------------------------------
(* Source documents the operator may have written. *)

\* a mapping from a function of optional nodes: <<>> leaves the key out
MapFrom(f) == YMap([k \in {x \in DOMAIN f : f[x] # <<>>} |-> f[k][1]])

OptIntNodes == {<<>>} \cup {<<YInt(Int64(v))>> : v \in 0..MaxLimit}

RequestNodes ==
    {<<>>, <<YMap(EmptyMap)>>,
     <<MapFrom([size_bytes_limit |-> <<YInt(Int64(0))>>, series_limit |-> <<YInt(Int64(MaxLimit))>>,
                samples_limit |-> <<>>])>>}

TenantsNode ==
    MapFrom([tenantA |-> <<MapFrom([request |-> <<MapFrom([samples_limit |-> <<YInt(Int64(0))>>])>>,
                                    head_series_limit |-> <<YInt(Int64(MaxLimit))>>])>>,
             tenantB |-> <<YNull>>,
             tenantC |-> <<YMap(EmptyMap)>>])

SourceDoc(hsl, req, mc, ten, extra) ==
    MapFrom([write |-> <<MapFrom(
        [global |-> <<MapFrom([max_concurrency |-> mc,
                               meta_monitoring_url |-> <<YStr("http://meta")>>,
                               meta_monitoring_limit_query |-> <<YStr("sum(series)")>>])>>,
         default |-> <<MapFrom([request |-> req, head_series_limit |-> hsl])>>,
         tenants |-> ten,
         unknown |-> extra])>>])

\* documents with only the default tenant, and documents with every section
\* (and a key the model of the document does not know)
WellFormedTexts ==
    {SourceDoc(hsl, req, <<>>, <<>>, <<>>) : hsl \in OptIntNodes, req \in RequestNodes}
    \cup {SourceDoc(hsl, req, <<YInt(Int64(0))>>, <<TenantsNode>>, <<YInt(Int64(1))>>) :
              hsl \in OptIntNodes, req \in RequestNodes}
    \cup {YNull, YMap(EmptyMap)}

\* documents in which each optional integer field is, independently of the
\* others, absent, 0 or MaxLimit: in the default tenant and the global config,
\* and in a named tenant
RoundTripTexts ==
    {SourceDoc(hsl, <<MapFrom([size_bytes_limit |-> sb, series_limit |-> se,
                               samples_limit |-> sa])>>, mc, <<>>, <<>>) :
         hsl \in OptIntNodes, sb \in OptIntNodes, se \in OptIntNodes,
         sa \in OptIntNodes, mc \in OptIntNodes}
    \cup {SourceDoc(<<>>, <<>>, <<>>,
                    <<MapFrom([tenantA |-> <<MapFrom(
                        [request |-> <<MapFrom([size_bytes_limit |-> sb, series_limit |-> se,
                                                samples_limit |-> sa])>>,
                         head_series_limit |-> hsl])>>])>>, <<>>) :
              hsl \in OptIntNodes, sb \in OptIntNodes, se \in OptIntNodes,
              sa \in OptIntNodes}

MalformedTexts ==
    {YBad, YStr("write"),
     SourceDoc(<<YStr("many")>>, <<>>, <<>>, <<>>, <<>>),
     SourceDoc(<<>>, <<YInt(Int64(1))>>, <<>>, <<>>, <<>>),
     SourceDoc(<<>>, <<>>, <<>>, <<MapFrom([tenantA |-> <<YInt(Int64(1))>>])>>, <<>>)}

SourceTexts == WellFormedTexts \cup MalformedTexts

\* what the source artifact can be at start: missing, without the key, or
\* holding a text under the key
SourceArtifacts ==
    {Absent, Artifact(NoData, 1)}
    \cup {Artifact([k \in {LimitsPath} |-> t], 1) : t \in SourceTexts}

\* content another writer leaves in the generated artifact
OtherData == [k \in {LimitsPath} |-> YMap(EmptyMap)]

GeneratedArtifacts == {Absent, Artifact(OtherData, 2)}

-----------------------------------------------------------------------------
(* The program. *)

\* no second instance is running
PeerOff ==
    [cmdConfig |-> [ConfigMapName |-> "", ConfigMapLimitsPath |-> LimitsPath,
                    ConfigMapGeneratedName |-> "", ReceiverLabel |-> DefaultLabel,
                    ActiveSeriesMax |-> Int64(0), Interval |-> 0],
     pc |-> "off", exitCode |-> -1, cycle |-> 0, runningReplicas |-> 0, globalLimit |-> Int64(0),
     limitsConfig |-> NilPtr, newConfigMap |-> <<>>, calls |-> <<>>, publishErr |-> <<>>]

TypeOK ==
    /\ cmdConfig \in CmdConfigs
    /\ pc \in {"validate", "list", "getSource", "create", "getExisting", "update",
               "tick", "exited"}
    /\ exitCode \in {-1, 0, 1}
    /\ cycle \in 0..MaxCycles
    /\ envWrites \in 0..MaxEnvWrites
    /\ storeFaults \in {Faults, {NoErr}}
    /\ peer.pc \in {"off", "validate", "list", "getSource", "create", "getExisting",
                    "update", "tick", "exited"}
    /\ peer.cycle \in 0..MaxCycles

Init ==
    /\ cmdConfig \in CmdConfigs
    /\ pc = "validate"
    /\ exitCode = -1
    /\ cycle = 0
    /\ statefulSets \in SmallClusters
    /\ \E src \in SourceArtifacts, gen \in GeneratedArtifacts :
           store = [n \in ArtifactNames |-> IF n = SourceName THEN src ELSE gen]
    /\ revision = 2
    /\ envWrites = 0
    /\ peer = PeerOff
    /\ storeFaults = Faults
    /\ runningReplicas = 0
    /\ globalLimit = Int64(0)
    /\ limitsConfig = NilPtr
    /\ newConfigMap = <<>>
    /\ calls = <<>>
    /\ publishErr = <<>>

\* log.Fatal: the process exits with status 1
Fatal ==
    /\ pc' = "exited"
    /\ exitCode' = 1

\* main, lines 123-129 and 152-156: validate the flags, then start the first cycle
Validate ==
    /\ pc = "validate"
    /\ IF validate(cmdConfig) # NoErr
       THEN Fatal /\ cycle' = cycle
       ELSE pc' = "list" /\ exitCode' = exitCode /\ cycle' = 1
    /\ UNCHANGED <<cmdConfig, storeFaults, peer,
                   statefulSets, store, revision, envWrites, runningReplicas,
                   globalLimit, limitsConfig, newConfigMap, calls, publishErr>>

\* a reader that reports zero when the list query fails
RunningReplicasOf_ZeroOnError(err, items) ==
    IF err # NoErr THEN <<0>> ELSE <<getRunningStatefulSets(items)>>

\* what getRunningStatefulSets does with the list query's error: <<>> is
\* log.Fatalf, <<n>> is the return of n
RunningReplicasOf(err, items) ==
    IF err # NoErr THEN <<>> ELSE <<getRunningStatefulSets(items)>>

\* execute, lines 132-139: NewController, the list query and the product
ListStatefulSets ==
    /\ pc = "list"
    /\ \/ \* NewController fails: no store call is made
          /\ storeFaults # {NoErr}
          /\ Fatal
          /\ UNCHANGED <<runningReplicas, globalLimit, calls>>
       \/ \E fault \in storeFaults :
            LET r == RunningReplicasOf(fault, statefulSets) IN
            /\ calls' = Append(calls, Call("List", cmdConfig.ReceiverLabel, 0, NoData, fault, 0))
            /\ IF r = <<>>
               THEN Fatal /\ UNCHANGED <<runningReplicas, globalLimit>>
               ELSE /\ runningReplicas' = r[1]
                    /\ globalLimit' = GlobalLimitOf(r[1], cmdConfig.ActiveSeriesMax)
                    /\ pc' = "getSource"
                    /\ exitCode' = exitCode
    /\ UNCHANGED <<cmdConfig, storeFaults, peer,
                   cycle, statefulSets, store, revision, envWrites,
                   limitsConfig, newConfigMap, publishErr>>

\* a loader that takes a missing key for an empty document
getLimitsConfigMap_KeyOptional(got, configMapPath, configMapName) ==
    IF got.err # NoErr
    THEN [err |-> <<"Error", "locating", "ConfigMap">> \o got.err, config |-> NilPtr]
    ELSE IF configMapPath \notin DOMAIN got.obj.Data
    THEN [err |-> NoErr, config |-> Ptr(ZeroWriteConfig)]
    ELSE LET u == Unmarshal(got.obj.Data[configMapPath]) IN
         IF u.err # NoErr
         THEN [err |-> <<"failed", "to", "parse", "limits", "config">> \o u.err,
               config |-> NilPtr]
         ELSE [err |-> NoErr, config |-> Ptr(u.config)]

\* getLimitsConfigMap after its Get has answered: [err, config]
getLimitsConfigMap(got, configMapPath, configMapName) ==
    IF got.err # NoErr
    THEN [err |-> <<"Error", "locating", "ConfigMap">> \o got.err, config |-> NilPtr]
    ELSE IF configMapPath \notin DOMAIN got.obj.Data
    THEN [err |-> <<"key", configMapPath, "not", "fond", "in", "ConfigMap", configMapName>>,
          config |-> NilPtr]
    ELSE LET u == Unmarshal(got.obj.Data[configMapPath]) IN
         IF u.err # NoErr
         THEN [err |-> <<"failed", "to", "parse", "limits", "config">> \o u.err,
               config |-> NilPtr]
         ELSE [err |-> NoErr, config |-> Ptr(u.config)]

\* execute, lines 141-144: load the base document or die
GetSource ==
    /\ pc = "getSource"
    /\ \E fault \in storeFaults :
         LET got == ApiGet(store, cmdConfig.ConfigMapName, fault)
             res == getLimitsConfigMap(got, cmdConfig.ConfigMapLimitsPath,
                                       cmdConfig.ConfigMapName)
         IN  /\ calls' = Append(calls, Call("Get", cmdConfig.ConfigMapName, 0, got.obj.Data,
                                            got.err, got.obj.ResourceVersion))
             /\ IF res.err # NoErr
                THEN Fatal /\ UNCHANGED limitsConfig
                ELSE limitsConfig' = res.config /\ pc' = "create" /\ exitCode' = exitCode
    /\ UNCHANGED <<cmdConfig, storeFaults, peer,
                   cycle, statefulSets, store, revision, envWrites,
                   runningReplicas, globalLimit, newConfigMap, publishErr>>

\* a zero limit taken for "unset"
SetHeadSeriesLimit_ZeroUnset(config, headSeriesValue) ==
    [config EXCEPT !.Write.Default.HeadSeriesLimit =
                        IF headSeriesValue = Int64(0) THEN NilPtr ELSE Ptr(headSeriesValue)]

\* line 257: config.Write.Default.HeadSeriesLimit = &headSeriesValue
SetHeadSeriesLimit(config, headSeriesValue) ==
    [config EXCEPT !.Write.Default.HeadSeriesLimit = Ptr(headSeriesValue)]

\* lines 259-272: the ConfigMap object built from the marshalled document
\* (ResourceVersion 0 is the empty string: none set)
NewConfigMapOf(configMapGeneratedName, configMapPath, config) ==
    [Name |-> configMapGeneratedName,
     Data |-> [k \in {configMapPath} |-> Marshal(config)],
     ResourceVersion |-> 0]

\* line 282: strings.Contains(err.Error(), "already exists")
IsAlreadyExists(err) == Contains(err, <<"already", "exists">>)

\* a publish that is done once Create has answered, whatever the answer
CreateReturn_CreateOnly(err) == <<NoErr>>

\* the update path taken after a Create that succeeded, too
CreateReturn_AlwaysUpdate(err) ==
    IF err = NoErr \/ IsAlreadyExists(err) THEN <<>> ELSE <<NoErr>>

\* lines 276-303, after Create has answered: <<e>> is "return e", <<>> is
\* "go on to the Get"; the function's last line returns nil for every other
\* create error
CreateReturn(err) ==
    IF err = NoErr THEN <<NoErr>>
    ELSE IF IsAlreadyExists(err) THEN <<>>
    ELSE <<NoErr>>

\* the Get's error dropped
GetReturn_Ignored(getErr) == <<>>

\* lines 286-289, after the Get has answered
GetReturn(getErr) ==
    IF getErr # NoErr
    THEN <<(<<"failed", "to", "fetch", "existing", "ConfigMap", "for", "update">> \o getErr)>>
    ELSE <<>>

\* the resourceVersion of the fetched object not copied
WithResourceVersion_Dropped(obj, existing) == obj

\* line 292: newConfigMap.ResourceVersion = existing.ResourceVersion
WithResourceVersion(obj, existing) ==
    [obj EXCEPT !.ResourceVersion = existing.ResourceVersion]

\* the Update's error dropped
UpdateReturn_Ignored(updateErr) == <<NoErr>>

\* lines 294-300, after the Update has answered
UpdateReturn(updateErr) ==
    IF updateErr # NoErr
    THEN <<(<<"failed", "to", "update", "existing", "ConfigMap">> \o updateErr)>>
    ELSE <<NoErr>>

\* a loop that does not look at the interval: it waits for a tick after every cycle
ReturnFromPublish_AlwaysLoop(err) ==
    /\ publishErr' = <<err>>
    /\ IF err # NoErr THEN Fatal
       ELSE pc' = "tick" /\ exitCode' = exitCode

\* execute, lines 146-149, and main, lines 152-161: createGeneratedConfigMap
\* has returned err
ReturnFromPublish(err) ==
    /\ publishErr' = <<err>>
    /\ IF err # NoErr THEN Fatal
       ELSE IF cmdConfig.Interval > 0 THEN pc' = "tick" /\ exitCode' = exitCode
       ELSE pc' = "exited" /\ exitCode' = 0

\* createGeneratedConfigMap, lines 255-279 and 303: inject the limit, marshal,
\* build the object, Create
CreateConfigMap ==
    /\ pc = "create"
    /\ LET config == SetHeadSeriesLimit(limitsConfig[1], globalLimit)
           obj == NewConfigMapOf(cmdConfig.ConfigMapGeneratedName,
                                 cmdConfig.ConfigMapLimitsPath, config)
       IN  /\ limitsConfig' = Ptr(config)
           /\ newConfigMap' = obj
           /\ \E fault \in storeFaults :
                LET res == ApiCreate(store, revision, obj, fault)
                    ret == CreateReturn(res.err)
                IN  /\ store' = res.store
                    /\ revision' = res.revision
                    /\ calls' = Append(calls, Call("Create", obj.Name, obj.ResourceVersion,
                                                   obj.Data, res.err, 0))
                    /\ IF ret = <<>>
                       THEN pc' = "getExisting" /\ UNCHANGED <<exitCode, publishErr>>
                       ELSE ReturnFromPublish(ret[1])
    /\ UNCHANGED <<cmdConfig, storeFaults, peer,
                   cycle, statefulSets, envWrites, runningReplicas, globalLimit>>

\* createGeneratedConfigMap, lines 285-292: fetch the existing ConfigMap for
\* its resourceVersion
GetExisting ==
    /\ pc = "getExisting"
    /\ \E fault \in storeFaults :
         LET got == ApiGet(store, cmdConfig.ConfigMapGeneratedName, fault)
             ret == GetReturn(got.err)
         IN  /\ calls' = Append(calls, Call("Get", cmdConfig.ConfigMapGeneratedName, 0,
                                            got.obj.Data, got.err, got.obj.ResourceVersion))
             /\ IF ret = <<>>
                THEN /\ newConfigMap' = WithResourceVersion(newConfigMap, got.obj)
                     /\ pc' = "update"
                     /\ UNCHANGED <<exitCode, publishErr>>
                ELSE ReturnFromPublish(ret[1]) /\ UNCHANGED newConfigMap
    /\ UNCHANGED <<cmdConfig, storeFaults, peer,
                   cycle, statefulSets, store, revision, envWrites,
                   runningReplicas, globalLimit, limitsConfig>>

\* createGeneratedConfigMap, lines 294-300: the single Update
UpdateConfigMap ==
    /\ pc = "update"
    /\ \E fault \in storeFaults :
         LET res == ApiUpdate(store, revision, newConfigMap, fault)
         IN  /\ store' = res.store
             /\ revision' = res.revision
             /\ calls' = Append(calls, Call("Update", newConfigMap.Name,
                                            newConfigMap.ResourceVersion, newConfigMap.Data,
                                            res.err, 0))
             /\ ReturnFromPublish(UpdateReturn(res.err)[1])
    /\ UNCHANGED <<cmdConfig, storeFaults, peer,
                   cycle, statefulSets, envWrites, runningReplicas, globalLimit,
                   limitsConfig, newConfigMap>>

\* each tick starting execute on its own, whether or not the last one is done
Tick_Overlapping ==
    /\ pc \in {"tick", "getExisting", "update"}
    /\ cycle < MaxCycles
    /\ pc' = "list"
    /\ cycle' = cycle + 1
    /\ runningReplicas' = 0
    /\ globalLimit' = Int64(0)
    /\ limitsConfig' = NilPtr
    /\ newConfigMap' = <<>>
    /\ calls' = <<>>
    /\ publishErr' = <<>>
    /\ UNCHANGED <<cmdConfig, storeFaults, peer,
                   exitCode, statefulSets, store, revision, envWrites>>

\* main, lines 155-158: the ticker fires and the loop calls execute again,
\* whose locals are fresh
Tick ==
    /\ pc = "tick"
    /\ cycle < MaxCycles
    /\ pc' = "list"
    /\ cycle' = cycle + 1
    /\ runningReplicas' = 0
    /\ globalLimit' = Int64(0)
    /\ limitsConfig' = NilPtr
    /\ newConfigMap' = <<>>
    /\ calls' = <<>>
    /\ publishErr' = <<>>
    /\ UNCHANGED <<cmdConfig, storeFaults, peer,
                   exitCode, statefulSets, store, revision, envWrites>>

Running == pc \in {"list", "getSource", "create", "getExisting", "update", "tick"}

\* another client deletes the generated artifact
EnvDelete ==
    /\ Running
    /\ envWrites < MaxEnvWrites
    /\ store[GeneratedName].exists
    /\ store' = [store EXCEPT ![GeneratedName] = Absent]
    /\ envWrites' = envWrites + 1
    /\ UNCHANGED <<cmdConfig, storeFaults, peer,
                   pc, exitCode, cycle, statefulSets, revision, runningReplicas,
                   globalLimit, limitsConfig, newConfigMap, calls, publishErr>>

\* another client creates or overwrites the generated artifact
EnvWrite ==
    /\ Running
    /\ envWrites < MaxEnvWrites
    /\ store' = [store EXCEPT ![GeneratedName] = Artifact(OtherData, revision + 1)]
    /\ revision' = revision + 1
    /\ envWrites' = envWrites + 1
    /\ UNCHANGED <<cmdConfig, storeFaults, peer,
                   pc, exitCode, cycle, statefulSets, runningReplicas,
                   globalLimit, limitsConfig, newConfigMap, calls, publishErr>>

Next ==
    \/ Validate
    \/ ListStatefulSets
    \/ GetSource
    \/ CreateConfigMap
    \/ GetExisting
    \/ UpdateConfigMap
    \/ Tick
    \/ EnvDelete
    \/ EnvWrite

Spec == Init /\ [][Next]_vars

(* The Cluster State Reader on its own: a valid command line, any cluster of *)
(* up to MaxGroups workload groups, and the first cycle's list query.        *)

InitReader ==
    /\ cmdConfig = [ConfigMapName |-> SourceName, ConfigMapLimitsPath |-> LimitsPath,
                    ConfigMapGeneratedName |-> GeneratedName, ReceiverLabel |-> DefaultLabel,
                    ActiveSeriesMax |-> Int64(1000), Interval |-> 0]
    /\ pc = "list"
    /\ exitCode = -1
    /\ cycle = 1
    /\ statefulSets \in AllClusters
    /\ store = [n \in ArtifactNames |-> Absent]
    /\ revision = 2
    /\ envWrites = 0
    /\ peer = PeerOff
    /\ storeFaults = Faults
    /\ runningReplicas = 0
    /\ globalLimit = Int64(0)
    /\ limitsConfig = NilPtr
    /\ newConfigMap = <<>>
    /\ calls = <<>>
    /\ publishErr = <<>>

NextReader == ListStatefulSets

SpecReader == InitReader /\ [][NextReader]_vars

\* one run-once cycle over the documents of RoundTripTexts: the Loader decodes
\* the document and the Publisher encodes it again
InitDoc ==
    /\ cmdConfig = [ConfigMapName |-> SourceName, ConfigMapLimitsPath |-> LimitsPath,
                    ConfigMapGeneratedName |-> GeneratedName, ReceiverLabel |-> DefaultLabel,
                    ActiveSeriesMax |-> Int64(1000), Interval |-> 0]
    /\ pc = "validate"
    /\ exitCode = -1
    /\ cycle = 0
    /\ statefulSets = ExampleCluster
    /\ \E t \in RoundTripTexts, gen \in GeneratedArtifacts :
           store = [n \in ArtifactNames |->
                       IF n = SourceName THEN Artifact([k \in {LimitsPath} |-> t], 1)
                       ELSE gen]
    /\ revision = 2
    /\ envWrites = 0
    /\ peer = PeerOff
    /\ storeFaults = Faults
    /\ runningReplicas = 0
    /\ globalLimit = Int64(0)
    /\ limitsConfig = NilPtr
    /\ newConfigMap = <<>>
    /\ calls = <<>>
    /\ publishErr = <<>>

NextDoc ==
    \/ Validate
    \/ ListStatefulSets
    \/ GetSource
    \/ CreateConfigMap
    \/ GetExisting
    \/ UpdateConfigMap

SpecDoc == InitDoc /\ [][NextDoc]_vars

\* a single instance in interval mode against a store whose calls succeed,
\* with no other writer: the loop keeps running (the ticker keeps firing)
InitConverge ==
    /\ cmdConfig \in {c \in CmdConfigs : /\ validate(c) = NoErr
                                         /\ c.ConfigMapGeneratedName # c.ConfigMapName
                                         /\ c.Interval > 0}
    /\ pc = "validate"
    /\ exitCode = -1
    /\ cycle = 0
    /\ statefulSets \in SmallClusters
    /\ \E t \in WellFormedTexts, gen \in GeneratedArtifacts :
           store = [n \in ArtifactNames |->
                       IF n = SourceName THEN Artifact([k \in {LimitsPath} |-> t], 1)
                       ELSE gen]
    /\ revision = 2
    /\ envWrites = 0
    /\ peer = PeerOff
    /\ storeFaults = {NoErr}
    /\ runningReplicas = 0
    /\ globalLimit = Int64(0)
    /\ limitsConfig = NilPtr
    /\ newConfigMap = <<>>
    /\ calls = <<>>
    /\ publishErr = <<>>

NextConverge ==
    \/ Validate
    \/ ListStatefulSets
    \/ GetSource
    \/ CreateConfigMap
    \/ GetExisting
    \/ UpdateConfigMap
    \/ Tick

SpecConverge == InitConverge /\ [][NextConverge]_vars /\ WF_vars(NextConverge)

-----------------------------------------------------------------------------
(* A second instance of the controller: another process of the same program, *)
(* with its own flags and its own locals, against the same store. Each of    *)
(* its steps is the step of the first instance, taken on the record peer.    *)

MainVars == <<cmdConfig, pc, exitCode, cycle, runningReplicas, globalLimit, limitsConfig,
              newConfigMap, calls, publishErr>>

\* log.Fatal in the second instance
PeerFatal(p) == [p EXCEPT !.pc = "exited", !.exitCode = 1]

\* main, lines 123-129 and 152-156
PeerValidate ==
    /\ peer.pc = "validate"
    /\ peer' = IF validate(peer.cmdConfig) # NoErr THEN PeerFatal(peer)
               ELSE [peer EXCEPT !.pc = "list", !.cycle = 1]
    /\ UNCHANGED <<MainVars, storeFaults, statefulSets, store, revision, envWrites>>

\* execute, lines 132-139
PeerListStatefulSets ==
    /\ peer.pc = "list"
    /\ \/ \* NewController fails: no store call is made
          /\ storeFaults # {NoErr}
          /\ peer' = PeerFatal(peer)
       \/ \E fault \in storeFaults :
            LET r == RunningReplicasOf(fault, statefulSets)
                p == [peer EXCEPT !.calls = Append(@, Call("List", peer.cmdConfig.ReceiverLabel,
                                                           0, NoData, fault, 0))]
            IN  peer' = IF r = <<>> THEN PeerFatal(p)
                        ELSE [p EXCEPT !.runningReplicas = r[1],
                                       !.globalLimit =
                                           GlobalLimitOf(r[1], peer.cmdConfig.ActiveSeriesMax),
                                       !.pc = "getSource"]
    /\ UNCHANGED <<MainVars, storeFaults, statefulSets, store, revision, envWrites>>

\* execute, lines 141-144
PeerGetSource ==
    /\ peer.pc = "getSource"
    /\ \E fault \in storeFaults :
         LET got == ApiGet(store, peer.cmdConfig.ConfigMapName, fault)
             res == getLimitsConfigMap(got, peer.cmdConfig.ConfigMapLimitsPath,
                                       peer.cmdConfig.ConfigMapName)
             p == [peer EXCEPT !.calls = Append(@, Call("Get", peer.cmdConfig.ConfigMapName, 0,
                                                        got.obj.Data, got.err,
                                                        got.obj.ResourceVersion))]
         IN  peer' = IF res.err # NoErr THEN PeerFatal(p)
                     ELSE [p EXCEPT !.limitsConfig = res.config, !.pc = "create"]
    /\ UNCHANGED <<MainVars, storeFaults, statefulSets, store, revision, envWrites>>

\* execute, lines 146-149, and main, lines 152-161
PeerReturnFromPublish(p, err) ==
    LET q == [p EXCEPT !.publishErr = <<err>>] IN
    IF err # NoErr THEN PeerFatal(q)
    ELSE IF p.cmdConfig.Interval > 0 THEN [q EXCEPT !.pc = "tick"]
    ELSE [q EXCEPT !.pc = "exited", !.exitCode = 0]

\* createGeneratedConfigMap, lines 255-279 and 303
PeerCreateConfigMap ==
    /\ peer.pc = "create"
    /\ LET config == SetHeadSeriesLimit(peer.limitsConfig[1], peer.globalLimit)
           obj == NewConfigMapOf(peer.cmdConfig.ConfigMapGeneratedName,
                                 peer.cmdConfig.ConfigMapLimitsPath, config)
       IN  \E fault \in storeFaults :
             LET res == ApiCreate(store, revision, obj, fault)
                 ret == CreateReturn(res.err)
                 p == [peer EXCEPT !.limitsConfig = Ptr(config),
                                   !.newConfigMap = obj,
                                   !.calls = Append(@, Call("Create", obj.Name,
                                                            obj.ResourceVersion, obj.Data,
                                                            res.err, 0))]
             IN  /\ store' = res.store
                 /\ revision' = res.revision
                 /\ peer' = IF ret = <<>> THEN [p EXCEPT !.pc = "getExisting"]
                            ELSE PeerReturnFromPublish(p, ret[1])
    /\ UNCHANGED <<MainVars, storeFaults, statefulSets, envWrites>>

\* createGeneratedConfigMap, lines 285-292
PeerGetExisting ==
    /\ peer.pc = "getExisting"
    /\ \E fault \in storeFaults :
         LET got == ApiGet(store, peer.cmdConfig.ConfigMapGeneratedName, fault)
             ret == GetReturn(got.err)
             p == [peer EXCEPT !.calls = Append(@, Call("Get",
                                                        peer.cmdConfig.ConfigMapGeneratedName,
                                                        0, got.obj.Data, got.err,
                                                        got.obj.ResourceVersion))]
         IN  peer' = IF ret = <<>>
                     THEN [p EXCEPT !.newConfigMap = WithResourceVersion(@, got.obj),
                                    !.pc = "update"]
                     ELSE PeerReturnFromPublish(p, ret[1])
    /\ UNCHANGED <<MainVars, storeFaults, statefulSets, store, revision, envWrites>>

\* createGeneratedConfigMap, lines 294-300
PeerUpdateConfigMap ==
    /\ peer.pc = "update"
    /\ \E fault \in storeFaults :
         LET res == ApiUpdate(store, revision, peer.newConfigMap, fault)
             p == [peer EXCEPT !.calls = Append(@, Call("Update", peer.newConfigMap.Name,
                                                        peer.newConfigMap.ResourceVersion,
                                                        peer.newConfigMap.Data, res.err, 0))]
         IN  /\ store' = res.store
             /\ revision' = res.revision
             /\ peer' = PeerReturnFromPublish(p, UpdateReturn(res.err)[1])
    /\ UNCHANGED <<MainVars, storeFaults, statefulSets, envWrites>>

\* main, lines 155-158: the ticker fires and the loop calls execute again,
\* whose locals are fresh
PeerTick ==
    /\ peer.pc = "tick"
    /\ peer.cycle < MaxCycles
    /\ peer' = [peer EXCEPT !.pc = "list", !.cycle = @ + 1, !.runningReplicas = 0,
                            !.globalLimit = Int64(0), !.limitsConfig = NilPtr,
                            !.newConfigMap = <<>>, !.calls = <<>>, !.publishErr = <<>>]
    /\ UNCHANGED <<MainVars, storeFaults, statefulSets, store, revision, envWrites>>

\* the per-replica capacities the second instance may have been started with
\* (the flag differs across a rollout)
PeerCapacities == {Int64(1), Int64(1000)}

\* two instances started in interval mode, a store that answers every call,
\* no other writer
InitTwo ==
    /\ cmdConfig = [ConfigMapName |-> SourceName, ConfigMapLimitsPath |-> LimitsPath,
                    ConfigMapGeneratedName |-> GeneratedName, ReceiverLabel |-> DefaultLabel,
                    ActiveSeriesMax |-> Int64(1000), Interval |-> 1]
    /\ pc = "validate"
    /\ exitCode = -1
    /\ cycle = 0
    /\ statefulSets = ExampleCluster
    /\ \E gen \in GeneratedArtifacts :
           store = [n \in ArtifactNames |->
                       IF n = SourceName
                       THEN Artifact([k \in {LimitsPath} |-> YMap(EmptyMap)], 1)
                       ELSE gen]
    /\ revision = 2
    /\ envWrites = 0
    /\ storeFaults = {NoErr}
    /\ \E c \in PeerCapacities :
           peer = [PeerOff EXCEPT !.pc = "validate",
                                  !.cmdConfig = [cmdConfig EXCEPT !.ActiveSeriesMax = c]]
    /\ runningReplicas = 0
    /\ globalLimit = Int64(0)
    /\ limitsConfig = NilPtr
    /\ newConfigMap = <<>>
    /\ calls = <<>>
    /\ publishErr = <<>>

NextTwo ==
    \/ Validate
    \/ ListStatefulSets
    \/ GetSource
    \/ CreateConfigMap
    \/ GetExisting
    \/ UpdateConfigMap
    \/ Tick
    \/ PeerValidate
    \/ PeerListStatefulSets
    \/ PeerGetSource
    \/ PeerCreateConfigMap
    \/ PeerGetExisting
    \/ PeerUpdateConfigMap
    \/ PeerTick

SpecTwo == InitTwo /\ [][NextTwo]_vars

-----------------------------------------------------------------------------
(* Properties.  calls holds the current cycle's store calls: calls[1] is the *)
(* list query, calls[2] the Get of the source artifact, and publish's calls  *)
(* start at calls[3].                                                        *)

PublishReturned == publishErr # <<>>
PublishSucceeded == publishErr = <<NoErr>>
PublishFailed == PublishReturned /\ publishErr[1] # NoErr

CreateAnswered == Len(calls) >= 3 /\ calls[3].op = "Create"
CreateSaidExists ==
    CreateAnswered /\ calls[3].err = ErrAlreadyExists(cmdConfig.ConfigMapGeneratedName)
CreateFailedOtherwise ==
    CreateAnswered /\ calls[3].err \in {ErrUnreachable, ErrForbidden, ErrDenied}

WriteCalls == {i \in 1..Len(calls) : calls[i].op \in {"Create", "Update"}}
SuccessfulWrites == {i \in WriteCalls : calls[i].err = NoErr}

\* C1: when Create fails for a reason other than the artifact already
\* existing, publish returns an error, the process dies of it, and the cycle
\* issues no Get and no Update.
C1_OtherCreateFailureIsFatal ==
    CreateFailedOtherwise =>
        /\ PublishFailed
        /\ pc = "exited" /\ exitCode = 1
        /\ \A i \in 4..Len(calls) : calls[i].op \notin {"Get", "Update"}

\* C2: when Create answers that the generated artifact already exists, publish
\* goes on to one Get of the same name and, the Get having answered, to one
\* Update of the same name and content carrying the resourceVersion that Get
\* returned; publish makes no other store call.
C2_ExistingArtifactSequence ==
    /\ Len(calls) <= 5
    /\ (CreateSaidExists /\ PublishReturned) =>
          /\ Len(calls) >= 4
          /\ calls[4].op = "Get"
          /\ calls[4].name = calls[3].name
          /\ IF calls[4].err = NoErr
             THEN /\ Len(calls) = 5
                  /\ calls[5].op = "Update"
                  /\ calls[5].name = calls[3].name
                  /\ calls[5].data = calls[3].data
                  /\ calls[5].version = calls[4].got
             ELSE Len(calls) = 4

C2_Witness ==
    /\ CreateSaidExists
    /\ PublishSucceeded
    /\ Len(calls) = 5
    /\ calls[5].op = "Update" /\ calls[5].err = NoErr
    /\ calls[5].version = calls[4].got /\ calls[4].got > 0

\* C3: when the store accepts the Create (no artifact of that name existed),
\* publish has made exactly that one call, no Get and no Update, and returns nil.
C3_CreateOnly ==
    (CreateAnswered /\ calls[3].err = NoErr) =>
        /\ Len(calls) = 3
        /\ PublishSucceeded
        /\ pc \in {"tick", "exited"}
        /\ pc = "exited" => exitCode = 0

C3_Witness ==
    /\ CreateAnswered /\ calls[3].err = NoErr
    /\ Len(calls) = 3
    /\ PublishSucceeded
    /\ store[GeneratedName] = Artifact(calls[3].data, revision)

\* C4: when the Get that follows an "already exists" fails (the store cannot
\* be reached, or the artifact was deleted in between), publish returns an
\* error that carries the Get's and the cycle issues no Update.
C4_FailedGetNoUpdate ==
    (CreateSaidExists /\ Len(calls) >= 4 /\ calls[4].err # NoErr) =>
        /\ Len(calls) = 4
        /\ calls[4].op = "Get"
        /\ PublishFailed
        /\ Contains(publishErr[1], calls[4].err)

C4_Witness ==
    /\ CreateSaidExists
    /\ Len(calls) = 4
    /\ calls[4].err = ErrNotFound(GeneratedName)
    /\ PublishFailed

\* C5: in every cycle at most two writes are attempted (one Create, then at
\* most one Update), at most one of them succeeds, and a publish that returns
\* success has made exactly one successful write.
C5_OneWritePerCycle ==
    /\ Cardinality(WriteCalls) <= 2
    /\ Cardinality(SuccessfulWrites) <= 1
    /\ PublishSucceeded => Cardinality(SuccessfulWrites) = 1

\* the part of C5 that the code keeps: the bounds on the writes
C5_WriteBounds ==
    /\ Cardinality(WriteCalls) <= 2
    /\ Cardinality(SuccessfulWrites) <= 1
    /\ \A i \in WriteCalls : calls[i].op = (IF i = 3 THEN "Create" ELSE "Update")

\* the store changes only in a step that is a successful Create or Update of
\* the cycle, or another client's write
StoreChangesOnlyByWrites ==
    [][store' # store =>
          \/ envWrites' = envWrites + 1
          \/ /\ Len(calls') = Len(calls) + 1
             /\ calls'[Len(calls')].op \in {"Create", "Update"}
             /\ calls'[Len(calls')].err = NoErr
             /\ store' = [store EXCEPT ![calls'[Len(calls')].name] =
                                          Artifact(calls'[Len(calls')].data, revision')]]_vars

\* the text under the limits key that write call i hands to the store
PublishedText(i) == calls[i].data[cmdConfig.ConfigMapLimitsPath]
\* the text the Loader read this cycle, and the document decoded from it
BaseText == calls[2].data[cmdConfig.ConfigMapLimitsPath]
BaseConfig == Unmarshal(BaseText).config

\* C6: for non-negative ready count r and capacity c, every document handed to
\* the store has write.default.head_series_limit present and equal to r * c,
\* whatever the base document carried; r = 0 gives a present 0.
C6_HeadSeriesLimitIsProduct ==
    \A i \in WriteCalls :
        (runningReplicas >= 0 /\ ~IsNegative(cmdConfig.ActiveSeriesMax)) =>
            LET d == PublishedText(i).m["write"].m["default"] IN
            /\ Has(d, "head_series_limit")
            /\ d.m["head_series_limit"].kind = "int"
            /\ SignExtend(d.m["head_series_limit"].i, 2 * IntBytes) =
                   ProductOf(Int64(runningReplicas), cmdConfig.ActiveSeriesMax)

\* the product of a and b is an int
ProductFits(a, b) ==
    LET p == ProductOf(a, b) IN p = SignExtend(SubSeq(p, 1, IntBytes), 2 * IntBytes)

\* the part of C6 that the code keeps: the field is always present, holds the
\* product as Go computes it, and that is r * c whenever r * c is an int
C6_HeadSeriesLimitIsComputedProduct ==
    \A i \in WriteCalls :
        LET d == PublishedText(i).m["write"].m["default"]
            r == Int64(runningReplicas)
            c == cmdConfig.ActiveSeriesMax
            p == ProductOf(r, c)
        IN  /\ Has(d, "head_series_limit")
            /\ d.m["head_series_limit"] = YInt(MulInt(r, c))
            /\ p = SignExtend(SubSeq(p, 1, IntBytes), 2 * IntBytes) =>
                   SignExtend(d.m["head_series_limit"].i, 2 * IntBytes) = p

C6_Witness ==
    /\ CreateAnswered /\ calls[3].err = NoErr
    /\ runningReplicas = 0
    /\ BaseConfig.Write.Default.HeadSeriesLimit = Ptr(Int64(MaxLimit))
    /\ PublishedText(3).m["write"].m["default"].m["head_series_limit"] = YInt(Int64(0))

\* C7: the document handed to the store decodes to the base document in its
\* global config, its default request sub-limits and every named tenant entry.
C7_OtherFieldsUnchanged ==
    \A i \in WriteCalls :
        LET pub == Unmarshal(PublishedText(i)) IN
        /\ pub.err = NoErr
        /\ pub.config.Write.Global = BaseConfig.Write.Global
        /\ pub.config.Write.Default.Request = BaseConfig.Write.Default.Request
        /\ pub.config.Write.Tenant = BaseConfig.Write.Tenant

C7_Witness ==
    /\ CreateAnswered /\ calls[3].err = NoErr
    /\ DOMAIN BaseConfig.Write.Tenant = {"tenantA", "tenantB", "tenantC"}
    /\ BaseConfig.Write.Tenant["tenantA"][1].HeadSeriesLimit = Ptr(Int64(MaxLimit))
    /\ BaseConfig.Write.Default.Request # NilPtr
    /\ BaseConfig.Write.Default.Request[1].SizeBytesLimit = Ptr(Int64(0))
    /\ BaseConfig.Write.Global.MaxConcurrency = Ptr(Int64(0))
    /\ Unmarshal(PublishedText(3)).config.Write.Default.HeadSeriesLimit
           # BaseConfig.Write.Default.HeadSeriesLimit

\* the ready counts added up in no particular order
RECURSIVE ReadySumOver(_, _)
ReadySumOver(items, S) ==
    IF S = {} THEN 0
    ELSE LET i == CHOOSE x \in S : TRUE
         IN  items[i].ReadyReplicas + ReadySumOver(items, S \ {i})

IndexOrders(n) == {p \in [1..n -> 1..n] : \A i, j \in 1..n : i # j => p[i] # p[j]}

\* C8: the reader returns the sum of the ready counts of the matched groups,
\* whatever their order and whatever their desired counts.
C8_SumOfReadyReplicas ==
    (pc = "getSource" /\ Len(calls) = 1) =>
        /\ runningReplicas = ReadySumOver(statefulSets, DOMAIN statefulSets)
        /\ \A p \in IndexOrders(Len(statefulSets)) :
               getRunningStatefulSets([i \in 1..Len(statefulSets) |-> statefulSets[p[i]]])
                   = runningReplicas

C8_Witness ==
    /\ pc = "getSource"
    /\ statefulSets = ExampleCluster
    /\ runningReplicas = 7

\* C9: when the list query fails the process dies at once: the cycle issues no
\* Get, no Create and no Update, so nothing is published.
C9_ListFailureAborts ==
    (Len(calls) >= 1 /\ calls[1].err # NoErr) =>
        /\ Len(calls) = 1
        /\ pc = "exited" /\ exitCode = 1
        /\ ~PublishReturned

C9_Witness ==
    /\ Len(calls) = 1 /\ calls[1].op = "List" /\ calls[1].err = ErrForbidden
    /\ pc = "exited"

\* the Loader's three failures, read off the Get it made
LoaderFailed ==
    /\ Len(calls) >= 2
    /\ \/ calls[2].err # NoErr
       \/ cmdConfig.ConfigMapLimitsPath \notin DOMAIN calls[2].data
       \/ Unmarshal(BaseText).err # NoErr

\* C10: when the Loader fails (artifact not found, key missing, text not
\* decodable) the cycle issues no Create and no Update.
C10_LoaderFailureNoWrite ==
    LoaderFailed =>
        /\ Len(calls) = 2
        /\ WriteCalls = {}
        /\ pc = "exited" /\ exitCode = 1

C10_Witness ==
    /\ Len(calls) = 2
    /\ calls[2].err = NoErr
    /\ cmdConfig.ConfigMapLimitsPath \notin DOMAIN calls[2].data
    /\ pc = "exited" /\ exitCode = 1
    /\ store[GeneratedName].exists

-----------------------------------------------------------------------------
(* The scheduler loop. *)

\* the cycle-fatal errors: the list query failed, the Loader failed, or publish
\* is over with nothing written (a Create that failed and was not recovered
\* by an Update, a failed Get, a failed Update)
CycleFailed ==
    \/ Len(calls) >= 1 /\ calls[1].err # NoErr
    \/ LoaderFailed
    \/ PublishReturned /\ SuccessfulWrites = {}

\* C11: every cycle-fatal error ends the process with log.Fatal; in interval
\* mode the loop is then not waiting for another tick.
C11_FatalErrorTerminates ==
    CycleFailed => pc = "exited" /\ exitCode = 1

\* the part of C11 that the code keeps: every failure but a Create refused for
\* another reason than "already exists" ends the process
C11_FatalButCreate ==
    (\/ Len(calls) >= 1 /\ calls[1].err # NoErr
     \/ LoaderFailed
     \/ \E i \in 4..Len(calls) : calls[i].err # NoErr) =>
        pc = "exited" /\ exitCode = 1

\* C12: with interval zero one cycle runs and the process stops after it; with
\* a positive interval the first cycle starts without a tick, every further
\* cycle is started by one tick, and the process never returns on its own.
C12_RunOnceOrPeriodic ==
    /\ [](cmdConfig.Interval = 0 =>
              /\ cycle <= 1
              /\ pc # "tick"
              /\ PublishReturned => pc = "exited")
    /\ [](cmdConfig.Interval > 0 =>
              /\ exitCode # 0
              /\ PublishSucceeded => pc = "tick")
    /\ []((pc # "validate" /\ validate(cmdConfig) = NoErr) => cycle >= 1)
    /\ [][cycle' # cycle =>
              /\ cycle' = cycle + 1
              /\ pc' = "list"
              /\ \/ pc = "validate" /\ cycle = 0
                 \/ pc = "tick" /\ cmdConfig.Interval > 0]_vars

C12_Witness ==
    /\ cmdConfig.Interval > 0
    /\ cycle = 2
    /\ PublishSucceeded
    /\ pc = "tick"

CycleOrder == <<"List", "Get", "Create", "Get", "Update">>

\* C13: the calls of a cycle are a prefix of list, get source, Create, Get,
\* Update, on the names the flags give, and a new cycle starts only from the
\* wait for the tick, after publish has returned, with no call of its own yet.
C13_SequentialCycles ==
    /\ [](/\ Len(calls) <= Len(CycleOrder)
          /\ \A i \in 1..Len(calls) :
                /\ calls[i].op = CycleOrder[i]
                /\ calls[i].name = (IF i = 1 THEN cmdConfig.ReceiverLabel
                                    ELSE IF i = 2 THEN cmdConfig.ConfigMapName
                                    ELSE cmdConfig.ConfigMapGeneratedName))
    /\ [][(cycle' # cycle /\ cycle >= 1) =>
              /\ pc = "tick"
              /\ PublishReturned
              /\ calls' = <<>>]_vars
    /\ [][(calls' # calls /\ cycle' = cycle) =>
              \E c \in {calls'[Len(calls')]} : calls' = Append(calls, c)]_vars

C13_Witness ==
    /\ cycle = 2
    /\ Len(calls) = 5
    /\ calls[5].op = "Update" /\ calls[5].err = NoErr

\* C16: with a required flag missing the process dies in validate: no cycle
\* starts and no store call is ever issued.
C16_ValidationBeforeIO ==
    (cmdConfig.ConfigMapName = "" \/ cmdConfig.ConfigMapGeneratedName = ""
         \/ cmdConfig.ActiveSeriesMax = Int64(0)) =>
        /\ cycle = 0
        /\ calls = <<>>
        /\ pc = "validate" \/ (pc = "exited" /\ exitCode = 1)

C16_Witness ==
    /\ cmdConfig.ConfigMapName # ""
    /\ cmdConfig.ActiveSeriesMax # Int64(0)
    /\ cmdConfig.ConfigMapGeneratedName = ""
    /\ pc = "exited" /\ exitCode = 1
    /\ calls = <<>>


(***************************************************************************)
(* The accepted configurations                                             *)
(***************************************************************************)

\* C17: in every cycle that reaches the store with a write, the per-replica
\* capacity that validate accepted and the ready count are non-negative, and
\* the head_series_limit handed to the store is greater than or equal to zero.
C17_PublishedLimitNonNegative ==
    \A i \in WriteCalls :
        /\ ~IsNegative(cmdConfig.ActiveSeriesMax)
        /\ runningReplicas >= 0
        /\ ~IsNegative(PublishedText(i).m["write"].m["default"].m["head_series_limit"].i)

\* C18: under an accepted configuration no Create or Update that the store
\* accepts is a write of the artifact the Loader reads, so the text the Loader
\* reads is never one the Publisher wrote.
C18_SourceNeverWritten ==
    validate(cmdConfig) = NoErr =>
        \A i \in SuccessfulWrites :
            /\ calls[i].name # cmdConfig.ConfigMapName
            /\ store[cmdConfig.ConfigMapName] # Artifact(calls[i].data, revision)


(***************************************************************************)
(* Decoding and encoding a document                                        *)
(***************************************************************************)

\* the node at a path of keys in a text, <<>> when the path is not there
RECURSIVE NodeAt(_, _)
NodeAt(t, path) ==
    IF path = <<>> THEN <<t>>
    ELSE IF t.kind = "map" /\ Has(t, Head(path))
         THEN NodeAt(t.m[Head(path)], Tail(path))
         ELSE <<>>

RequestLimitKeys == {"size_bytes_limit", "series_limit", "samples_limit"}

\* the paths of the optional integer fields of a text: those of the global
\* config and the default tenant, and those of every tenant the text names
TenantNamesOf(t) ==
    LET ten == NodeAt(t, <<"write", "tenants">>) IN
    IF ten # <<>> /\ ten[1].kind = "map" THEN DOMAIN ten[1].m ELSE {}

DefaultHeadSeriesLimitPath == <<"write", "default", "head_series_limit">>

OptionalIntPaths(t) ==
    {<<"write", "global", "max_concurrency">>, DefaultHeadSeriesLimitPath}
    \cup {<<"write", "default", "request", k>> : k \in RequestLimitKeys}
    \cup {<<"write", "tenants", n, "head_series_limit">> : n \in TenantNamesOf(t)}
    \cup {<<"write", "tenants", n, "request", k>> :
              n \in TenantNamesOf(t), k \in RequestLimitKeys}

KeepsAbsentAndZero(in, out, path) ==
    /\ NodeAt(in, path) = <<>> => NodeAt(out, path) = <<>>
    /\ NodeAt(in, path) = <<YInt(Int64(0))>> => NodeAt(out, path) = <<YInt(Int64(0))>>

LoaderDecoded ==
    /\ Len(calls) >= 2 /\ calls[2].err = NoErr
    /\ cmdConfig.ConfigMapLimitsPath \in DOMAIN calls[2].data
    /\ Unmarshal(BaseText).err = NoErr

\* C15: the text the Loader decoded, encoded again, has every optional integer
\* field absent where the source has it absent and present with value 0 where
\* the source sets it to 0; the text the Publisher hands to the store keeps this
\* for every such field but default.head_series_limit, which it overwrites.
C15_RoundTripKeepsAbsentAndZero ==
    LoaderDecoded =>
        /\ \A p \in OptionalIntPaths(BaseText) :
               KeepsAbsentAndZero(BaseText, Marshal(BaseConfig), p)
        /\ \A i \in WriteCalls :
               \A p \in OptionalIntPaths(BaseText) \ {DefaultHeadSeriesLimitPath} :
                   KeepsAbsentAndZero(BaseText, PublishedText(i), p)

C15_Witness ==
    /\ LoaderDecoded
    /\ WriteCalls # {}
    /\ NodeAt(BaseText, DefaultHeadSeriesLimitPath) = <<>>
    /\ NodeAt(BaseText, <<"write", "global", "max_concurrency">>) = <<YInt(Int64(0))>>
    /\ NodeAt(BaseText, <<"write", "default", "request", "series_limit">>) = <<>>
    /\ NodeAt(BaseText, <<"write", "default", "request", "samples_limit">>) = <<YInt(Int64(0))>>
    /\ NodeAt(Marshal(BaseConfig), DefaultHeadSeriesLimitPath) = <<>>
    /\ NodeAt(PublishedText(3), <<"write", "default", "request", "samples_limit">>) = <<YInt(Int64(0))>>
    /\ NodeAt(PublishedText(3), <<"write", "default", "request", "series_limit">>) = <<>>


(***************************************************************************)
(* Convergence of the generated artifact                                   *)
(***************************************************************************)

\* the source document with default.head_series_limit set to the sum of the
\* ready counts times the per-replica capacity, as the generated artifact's data
ConvergedData(limit) ==
    LET text == store[cmdConfig.ConfigMapName].Data[cmdConfig.ConfigMapLimitsPath]
    IN  [k \in {cmdConfig.ConfigMapLimitsPath} |->
            Marshal(SetHeadSeriesLimit(Unmarshal(text).config, limit))]

ReadyCount == ReadySumOver(statefulSets, 1..Len(statefulSets))

\* the generated artifact holds the source document with the limit ready *
\* capacity: the product is an int, and it is the limit of the document
GeneratedConverged ==
    LET exact == ProductOf(Int64(ReadyCount), cmdConfig.ActiveSeriesMax) IN
    /\ store[cmdConfig.ConfigMapGeneratedName].exists
    /\ ProductFits(Int64(ReadyCount), cmdConfig.ActiveSeriesMax)
    /\ store[cmdConfig.ConfigMapGeneratedName].Data =
           ConvergedData(SubSeq(exact, 1, IntBytes))

\* the generated artifact holds the source document with the limit that the
\* program computes from the ready count and the capacity
GeneratedHoldsComputed ==
    /\ store[cmdConfig.ConfigMapGeneratedName].exists
    /\ store[cmdConfig.ConfigMapGeneratedName].Data =
           ConvergedData(MulInt(Int64(ReadyCount), cmdConfig.ActiveSeriesMax))

\* C19: a single instance in interval mode, with a store whose calls succeed
\* and unchanging inputs, eventually leaves the generated artifact holding the
\* source document with default.head_series_limit = ready * capacity for good;
\* it holds that content whenever a cycle's publish has returned, and every
\* cycle after the first goes through the failed Create, the Get and the Update.
C19_GeneratedConverges ==
    /\ <>[]GeneratedConverged
    /\ <>(cycle = MaxCycles /\ PublishSucceeded)
    /\ [](PublishReturned => PublishSucceeded /\ GeneratedConverged)
    /\ []((cycle >= 2 /\ PublishReturned) =>
             /\ Len(calls) = 5
             /\ calls[3].op = "Create"
             /\ calls[3].err = ErrAlreadyExists(cmdConfig.ConfigMapGeneratedName)
             /\ calls[4].op = "Get" /\ calls[4].err = NoErr
             /\ calls[5].op = "Update" /\ calls[5].err = NoErr)

\* the part of C19 that the code keeps: the same convergence, to the limit as
\* the program computes it (C6)
C19_ConvergesToComputedLimit ==
    /\ <>[]GeneratedHoldsComputed
    /\ <>(cycle = MaxCycles /\ PublishSucceeded)
    /\ [](PublishReturned => PublishSucceeded /\ GeneratedHoldsComputed)
    /\ []((cycle >= 2 /\ PublishReturned) =>
             /\ Len(calls) = 5
             /\ calls[3].op = "Create"
             /\ calls[3].err = ErrAlreadyExists(cmdConfig.ConfigMapGeneratedName)
             /\ calls[4].op = "Get" /\ calls[4].err = NoErr
             /\ calls[5].op = "Update" /\ calls[5].err = NoErr)

C19_Witness ==
    /\ storeFaults = {NoErr}
    /\ cycle = MaxCycles
    /\ pc = "tick"
    /\ PublishSucceeded
    /\ Len(calls) = 5
    /\ runningReplicas > 0
    /\ GeneratedConverged
    /\ store[cmdConfig.ConfigMapGeneratedName].Data # OtherData


(***************************************************************************)
(* Two instances on one generated artifact                                 *)
(***************************************************************************)

\* the store's revision counter moves only with a write, and the generated
\* artifact carries the revision of the latest write
RevisionCountsWrites ==
    /\ [](store[GeneratedName].exists => store[GeneratedName].ResourceVersion = revision)
    /\ [][revision' # revision =>
              /\ revision' = revision + 1
              /\ store'[GeneratedName].exists
              /\ store'[GeneratedName].ResourceVersion = revision']_vars

\* the step in which an instance's Get is answered: the version it obtains is
\* the revision of the latest write
GetSeesLatest(cs, csNext) ==
    (Len(cs) = 3 /\ Len(csNext) = 4 /\ csNext[4].err = NoErr) =>
        /\ csNext[4].op = "Get"
        /\ csNext[4].got = revision
        /\ store' = store

\* the step in which an instance's Update is answered: it carries the version
\* of the Get; it is accepted when the revision counter has not moved since
\* that Get, and rejected as a conflict, with the store left as it is and the
\* instance ended by log.Fatalf, when it has
UpdateOnlyOnSeenVersion(cs, csNext, pcNext, exitNext) ==
    (Len(cs) = 4 /\ Len(csNext) = 5) =>
        /\ csNext[5].op = "Update"
        /\ csNext[5].version = cs[4].got
        /\ IF revision = cs[4].got
           THEN /\ csNext[5].err = NoErr
                /\ store' = [store EXCEPT ![GeneratedName] =
                                              Artifact(csNext[5].data, revision + 1)]
           ELSE /\ revision > cs[4].got
                /\ csNext[5].err = ErrConflict(GeneratedName)
                /\ store' = store
                /\ pcNext = "exited"
                /\ exitNext = 1

\* C14: with two instances on the same generated artifact, an instance's
\* Update is accepted only if no write happened since that instance's Get;
\* otherwise it fails on the stale version, the instance exits fatally and
\* makes no further call, and the other instance's write stays in the store.
C14_NoBlindOverwrite ==
    /\ RevisionCountsWrites
    /\ [][/\ GetSeesLatest(calls, calls')
          /\ GetSeesLatest(peer.calls, peer'.calls)
          /\ UpdateOnlyOnSeenVersion(calls, calls', pc', exitCode')
          /\ UpdateOnlyOnSeenVersion(peer.calls, peer'.calls, peer'.pc, peer'.exitCode)]_vars
    /\ [][pc = "exited" => calls' = calls /\ pc' = pc]_vars
    /\ [][peer.pc = "exited" => peer' = peer]_vars

C14_Witness ==
    /\ peer.pc # "off"
    /\ Len(calls) = 5
    /\ calls[5].op = "Update"
    /\ calls[5].err = ErrConflict(GeneratedName)
    /\ pc = "exited" /\ exitCode = 1
    /\ store[GeneratedName].ResourceVersion > calls[4].got
    /\ peer.newConfigMap # <<>>
    /\ store[GeneratedName].Data = peer.newConfigMap.Data
    /\ store[GeneratedName].Data # calls[5].data

====
